---- MODULE Spec2Model ----
(***************************************************************************)
(* Agent-based epidemic simulator on a contact graph (CS768).              *)
(*                                                                         *)
(* The model follows main.simulation(): init_states, then per tick the     *)
(* five step functions of Simulation_steps.py, in the order of the loop    *)
(* body, then the stop condition.                                          *)
(*                                                                         *)
(* Indicator arrays (0/1 numpy vectors) are sets of agents.                *)
(*                                                                         *)
(* Time.  Every countdown of the code is a float number of days that is    *)
(* decreased by 1/STEPS_PER_DAY per tick.  The model counts time in units  *)
(* of 1/(STEPS_PER_DAY * Resolution) day: one tick is Resolution units,    *)
(* one day is STEPS_PER_DAY * Resolution units, and the code's "-1" (not   *)
(* available) is minus one day.  config.EPSILON = 1e-10 day is smaller     *)
(* than one unit, so "x < EPSILON" is "x <= 0" on unit multiples.          *)
(*                                                                         *)
(* Probabilities.  A probability p is one of three classes: "zero" (p=0),  *)
(* "frac" (0<p<1), "one" (p=1), plus "nan" for the float NaN that          *)
(* log(1-1)*0 produces.  A draw np.random.random() < p can come out true   *)
(* iff p is frac or one and can come out false iff p is not one.           *)
(***************************************************************************)
EXTENDS Integers, FiniteSets, Sequences, TLC

\* ------------------------------------------------------------------ bounds
N == 2
MAX_STEPS == 3
Resolution == 2

\* Values the inputs are drawn from (in time units, see above).
StepsPerDayValues == {1, 2}
IncubationDurations == {1, 3}
TestDelayTimes == {0, 3}
QuarantineDurations == {1, 5}
ExposedInfectsDurations == {0, 2}
Multiplicities == {0, 1, 2}
SelfLoops == {0}
LongIncubationDurations == {3, 5}

\* Graph builders: the largest N they are called with, the degree targets
\* generate_power_law_degrees can return, and the other arguments.
GraphNodes == 3
DegreeTargets == {0, 1, 2}
LocalDegreeTargets == {0, 2}
NDivisions == {1, 2}
MeanDegrees == {1, 2, 4}

\* ----------------------------------------------------------- probabilities
ProbZero == "zero"
ProbFrac == "frac"
ProbOne == "one"
ProbNaN == "nan"

\* p * q on probability classes.
ProbMul(p, q) ==
  IF p = ProbZero \/ q = ProbZero THEN ProbZero
  ELSE IF p = ProbOne /\ q = ProbOne THEN ProbOne
  ELSE ProbFrac

\* ------------------------------------------------------------------- state
VARIABLES
  cfg,                    \* the values of config.py this run uses
  adj_mat,                \* adjacency matrix of the contact multigraph
  S_arr, E_arr, I_arr, R_arr, A_arr, Q_arr, TP_arr,
  E_left, Q_left, T_result_left,
  T_result_positive_arr,
  new_Q_arr,              \* testing_step's output read by quarantine_step
  step_num,               \* loop variable of simulation()
  pc,                     \* next statement of the loop body
  warned,                 \* 'WARNING: max number of steps reached.' printed
  tst,                    \* locals of the last testing_step call
  T_admin,                \* tick of each agent's last unreturned test, or -1
  T_kind,                 \* what each agent's last test was (history)
  spread,                 \* a direct call of spread_to_neighbors
  build,                  \* a call of a graph builder
  Q_entered               \* tick at which each agent last entered Quarantine, or -1

vars == <<cfg, adj_mat, S_arr, E_arr, I_arr, R_arr, A_arr, Q_arr, TP_arr,
          E_left, Q_left, T_result_left, T_result_positive_arr, new_Q_arr,
          step_num, pc, warned, tst, T_admin, T_kind, spread, build, Q_entered>>

\* The agents: the indices of the state vectors init_states(config.N, ...)
\* returns.
Agents == 0 .. (cfg.N - 1)

\* One tick in time units: 1 / steps_per_day day.
StepLength == Resolution

\* One day in time units; the code's -1 is minus one day.
Day == cfg.STEPS_PER_DAY * Resolution
NotAvailable == 0 - Day

\* x < config.EPSILON
BelowEpsilon(x) == x <= 0

\* Step-wise probabilities: config.PROB_X / config.STEPS_PER_DAY on classes.
per_step(p) == IF p = ProbOne /\ cfg.STEPS_PER_DAY > 1 THEN ProbFrac ELSE p
prob_infect_per_step == per_step(cfg.PROB_INFECT)
prob_infected_detected_per_step == per_step(cfg.PROB_INFECTED_DETECTED)
prob_exposed_detected_per_step == per_step(cfg.PROB_EXPOSED_DETECTED)
prob_recover_per_step == per_step(cfg.PROB_RECOVER)

\* ------------------------------------------------------- Simulation_utilities
RECURSIVE SumOver(_, _)
SumOver(group, row) ==
  IF group = {} THEN 0
  ELSE LET j == CHOOSE x \in group : TRUE
       IN row[j] + SumOver(group \ {j}, row)

\* The value bound to a parameter named adj_mat: the sparse adjacency matrix,
\* or a plain integer (which has no .multiply).
MatrixArg(m) == [kind |-> "matrix", m |-> m]
IntArg(v) == [kind |-> "int", v |-> v]

\* number_of_edges_to_group raises: reached with a non-empty group and an
\* adj_mat that is not a matrix (AttributeError) or that has another number of
\* columns than group_arr has entries (ValueError of multiply).
number_of_edges_raises(group_arr, adj) ==
  group_arr # {} /\ (adj.kind # "matrix" \/ DOMAIN adj.m # Agents)

\* Number of edges, with multiplicity, from each node to the nodes of group_arr.
number_of_edges_to_group(group_arr, adj) ==
  [i \in Agents |->
     IF group_arr = {} THEN 0 ELSE SumOver(group_arr, adj.m[i])]

\* Faulty variant: the number of connections is ignored.
infection_probability_unconnected(prob_infect, connections) == prob_infect

\* Faulty variant: a connection never infects with certainty.
infection_probability_uncertain(prob_infect, connections) ==
  IF prob_infect = ProbZero \/ connections = 0 THEN ProbZero ELSE ProbFrac

\* 1 - exp(log(1 - prob_infect) * connections), per probability class.
infection_probability(prob_infect, connections) ==
  IF prob_infect = ProbOne
  THEN (IF connections = 0 THEN ProbNaN ELSE ProbOne)
  ELSE (IF connections = 0 THEN ProbZero ELSE ProbFrac)

\* Faulty variant: edges are counted also when prob_infect is 0.
individual_infection_raises_counting(I, prob_infect, adj) ==
  number_of_edges_raises(I, adj)

individual_infection_raises(I, prob_infect, adj) ==
  prob_infect # ProbZero /\ number_of_edges_raises(I, adj)

individual_infection_probabilities(I, prob_infect, adj) ==
  IF prob_infect = ProbZero
  THEN [i \in Agents |-> ProbZero]
  ELSE LET connections_to_I == number_of_edges_to_group(I, adj)
       IN [i \in Agents |-> infection_probability(prob_infect, connections_to_I[i])]

\* Faulty variant: the draw is not restricted to indicator_arr.
random_subset_unrestricted(indicator_arr, sample_probs) ==
  LET must == {i \in Agents : sample_probs[i] = ProbOne}
      may == {i \in Agents : sample_probs[i] \in {ProbFrac, ProbOne}}
  IN {must \cup x : x \in SUBSET (may \ must)}

\* The results (np.random.random(shape) < sample_probs) & indicator_arr can have.
random_subset(indicator_arr, sample_probs) ==
  LET must == {i \in indicator_arr : sample_probs[i] = ProbOne}
      may == {i \in indicator_arr : sample_probs[i] \in {ProbFrac, ProbOne}}
  IN {must \cup x : x \in SUBSET (may \ must)}

\* A scalar sample_probs, broadcast over the array.
Broadcast(p) == [i \in Agents |-> p]

spread_raises(from_group_arr, prob_spread, adj) ==
  individual_infection_raises(from_group_arr, prob_spread, adj)

\* The results spread_to_neighbors can return (to_group = Agents when omitted).
spread_to_neighbors(from_group_arr, prob_spread, adj, to_group) ==
  random_subset(to_group,
                individual_infection_probabilities(from_group_arr, prob_spread, adj))

\* --------------------------------------------------------- Simulation_steps
\* Faulty variant: everybody who is not Quarantined can be infected.
not_quarantined(S, Q) == Agents \ Q

\* Those who can be infected - Quarantined cannot be.
susceptible_not_quarantined(S, Q) == S \ Q

\* Exposed who are infectious: only a few days before becoming Infected.
E_infectious_arr(E, El) == {i \in E : El[i] <= cfg.DURATION_EXPOSED_INFECTS}

\* Faulty variant: the Quarantined stay infectious.
infection_sources_quarantined(E, El, I, A, Q) ==
  LET prob_infect == prob_infect_per_step
      prob_infect_asymptomatic ==
        ProbMul(prob_infect, cfg.RELATIVE_INFECTIOUSNESS_ASYMPTOMATIC)
      prob_infect_exposed == ProbMul(prob_infect, cfg.PROB_INFECT_EXPOSED_FACTOR)
      prob_infect_exposed_asymptomatic ==
        ProbMul(prob_infect_exposed, cfg.RELATIVE_INFECTIOUSNESS_ASYMPTOMATIC)
      Ei == E_infectious_arr(E, El)
  IN << [from |-> I \ A, prob |-> prob_infect],
        [from |-> I \cap A, prob |-> prob_infect_asymptomatic],
        [from |-> Ei \ A, prob |-> prob_infect_exposed],
        [from |-> Ei \cap A, prob |-> prob_infect_exposed_asymptomatic] >>

\* The four infectious sub-populations of infection_step and their per-edge
\* probabilities, in the order of the four spread_to_neighbors calls.
infection_sources(E, El, I, A, Q) ==
  LET prob_infect == prob_infect_per_step
      prob_infect_asymptomatic ==
        ProbMul(prob_infect, cfg.RELATIVE_INFECTIOUSNESS_ASYMPTOMATIC)
      prob_infect_exposed == ProbMul(prob_infect, cfg.PROB_INFECT_EXPOSED_FACTOR)
      prob_infect_exposed_asymptomatic ==
        ProbMul(prob_infect_exposed, cfg.RELATIVE_INFECTIOUSNESS_ASYMPTOMATIC)
      Ei == E_infectious_arr(E, El)
  IN << [from |-> (I \ A) \ Q, prob |-> prob_infect],
        [from |-> (I \cap A) \ Q, prob |-> prob_infect_asymptomatic],
        [from |-> (Ei \ A) \ Q, prob |-> prob_infect_exposed],
        [from |-> (Ei \cap A) \ Q, prob |-> prob_infect_exposed_asymptomatic] >>

\* The sets new_infected can be after the four calls are or-ed together.
\* Faulty variant: the calls for the Exposed see those the calls for the
\* Infected have just infected.
new_infected_results_chained(S, E, El, I, A, Q, adj) ==
  LET src == infection_sources(E, El, I, A, Q)
      to_group == susceptible_not_quarantined(S, Q)
      r(k) == spread_to_neighbors(src[k].from, src[k].prob, adj, to_group)
      later(ab) == infection_sources(E \cup ab, El, I, A, Q)
      q(ab, k) == spread_to_neighbors(later(ab)[k].from, later(ab)[k].prob, adj, to_group)
  IN UNION {{ab \cup c \cup d : c \in q(ab, 3), d \in q(ab, 4)} :
              ab \in {a \cup b : a \in r(1), b \in r(2)}}

new_infected_results(S, E, El, I, A, Q, adj) ==
  LET src == infection_sources(E, El, I, A, Q)
      to_group == susceptible_not_quarantined(S, Q)
      r(k) == spread_to_neighbors(src[k].from, src[k].prob, adj, to_group)
  IN {a \cup b \cup c \cup d : a \in r(1), b \in r(2), c \in r(3), d \in r(4)}

\* Faulty variant: the countdown alone decides, Exposed or not.
become_infected_by_countdown(E, El) == {i \in Agents : BelowEpsilon(El[i])}

\* Faulty variant: those in Quarantine stay Exposed.
become_infected_unless_quarantined(E, El) ==
  {i \in E : BelowEpsilon(El[i]) /\ i \notin Q_arr}

\* incubation_step: those whose incubation period ends.
become_infected(E, El) == {i \in E : BelowEpsilon(El[i])}

\* Faulty variant: the recovered stay Infected.
I_after_recovery_kept(I, new_recovered) == I

\* recovery_step: I_arr - new_recovered.
I_after_recovery(I, new_recovered) == I \ new_recovered

\* Faulty variant: known positives are released when their time is up.
exit_quarantine_by_time(Q, Ql, R, TP) ==
  {i \in Q : BelowEpsilon(Ql[i])} \cup ((TP \cap R) \cap Q)

\* Faulty variant: released only once the countdown is below zero.
exit_quarantine_late(Q, Ql, R, TP) ==
  ({i \in Q : Ql[i] < 0} \ (TP \ R)) \cup ((TP \cap R) \cap Q)

\* quarantine_step, exiting: the agents released from Quarantine.
exit_quarantine(Q, Ql, R, TP) ==
  LET known_positives == TP \ R
      known_recovered == TP \cap R
      time_is_up == {i \in Q : BelowEpsilon(Ql[i])}
  IN (time_is_up \ known_positives) \cup (known_recovered \cap Q)

\* Faulty variant: the flagged enter again although they are Quarantined.
new_in_quarantine_reset(new_Q, Q) == new_Q

\* quarantine_step, entering.
new_in_quarantine(new_Q, Q) == new_Q \ Q

\* --------------------------------------------------------- Simulation_tests
\* (T_result_left > 0).astype(int)
pending_test_results_arr(T) == {i \in Agents : T[i] > 0}

\* Faulty variant: those pending test results are retested.
not_retested_pending_ignored(group, TP, new_TP, T) == group \ (TP \cup new_TP)

\* Known positives and those pending test results aren't retested.
not_retested(group, TP, new_TP, T) ==
  group \ (TP \cup new_TP \cup pending_test_results_arr(T))

\* T_result_left - 1. / config.STEPS_PER_DAY
T_decreased(T) == [i \in Agents |-> T[i] - StepLength]

\* (T_result_left < config.EPSILON) & (T_result_left > -1)
test_comes_back_arr(T) ==
  {i \in Agents : BelowEpsilon(T[i]) /\ T[i] > NotAvailable}

tests_analyzed(T, Tpos) ==
  LET T1 == T_decreased(T)
      back == test_comes_back_arr(T1)
  IN [new_TP_arr |-> back \cap Tpos,
      test_comes_back_arr |-> back,
      T_result_left |-> [i \in Agents |-> IF i \in back THEN NotAvailable ELSE T1[i]]]

\* Faulty variant: every test is recorded as positive.
test_group_all_positive(tested_arr, carrier_arr, T, Tpos, test_delay_time) ==
  [T_result_positive_arr |-> Tpos \cup tested_arr,
   T_result_left |-> [i \in Agents |-> IF i \in tested_arr THEN test_delay_time ELSE T[i]]]

test_group(tested_arr, carrier_arr, T, Tpos, test_delay_time) ==
  [T_result_positive_arr |-> Tpos \cup (tested_arr \cap carrier_arr),
   T_result_left |-> [i \in Agents |-> IF i \in tested_arr THEN test_delay_time ELSE T[i]]]

\* symptomatics_tested, for the drawn random subset of I_arr & (1 - A_arr).
symptomatics_tested(drawn, I, TP, new_TP, T, Tpos, test_delay_time) ==
  LET tested == not_retested(drawn, TP, new_TP, T)
      g == test_group(tested, I, T, Tpos, test_delay_time)
  IN [new_symptomatic_tested_arr |-> tested,
      T_result_left |-> g.T_result_left,
      T_result_positive_arr |-> g.T_result_positive_arr]

\* general_population_tested: the population the random subset is drawn from.
genpop_candidates(TP, new_TP, T) == not_retested(Agents, TP, new_TP, T)

general_population_tested(tested, E, I, T, Tpos, test_delay_time) ==
  test_group(tested, E \cup I, T, Tpos, test_delay_time)

\* Faulty variant: traced neighbors are tested only when they are quarantined.
contact_tracing_coupled(neighbors_traced, E, I, TP, new_TP, T, Tpos, new_Q, quarantine_neighbors, test_neighbors, test_delay_time) ==
  LET Q1 == IF quarantine_neighbors
            THEN new_Q \cup (neighbors_traced \ (new_TP \cup TP))
            ELSE new_Q
      neighbors_tested == IF test_neighbors /\ quarantine_neighbors
                          THEN not_retested(neighbors_traced, TP, new_TP, T)
                          ELSE {}
      g == test_group(neighbors_tested, E \cup I, T, Tpos, test_delay_time)
  IN [new_Q_arr |-> Q1,
      neighbors_tested |-> neighbors_tested,
      T_result_left |-> g.T_result_left,
      T_result_positive_arr |-> g.T_result_positive_arr]

\* contact_tracing after neighbors_traced is drawn: quarantine and/or test them.
contact_tracing(neighbors_traced, E, I, TP, new_TP, T, Tpos, new_Q, quarantine_neighbors, test_neighbors, test_delay_time) ==
  LET Q1 == IF quarantine_neighbors
            THEN new_Q \cup (neighbors_traced \ (new_TP \cup TP))
            ELSE new_Q
      neighbors_tested == IF test_neighbors
                          THEN not_retested(neighbors_traced, TP, new_TP, T)
                          ELSE {}
      g == test_group(neighbors_tested, E \cup I, T, Tpos, test_delay_time)
  IN [new_Q_arr |-> Q1,
      neighbors_tested |-> neighbors_tested,
      T_result_left |-> IF test_neighbors THEN g.T_result_left ELSE T,
      T_result_positive_arr |-> IF test_neighbors THEN g.T_result_positive_arr ELSE Tpos]

\* Faulty variant: the new positives are not flagged.
should_quarantine_symptomatic_only(new_TP, new_symptomatic_tested) ==
  new_symptomatic_tested

\* Faulty variant: the symptomatic wait for their result.
should_quarantine_positives_only(new_TP, new_symptomatic_tested) == new_TP

\* Those who need to enter Quarantine. New positives and symptomatic.
should_quarantine(new_TP, new_symptomatic_tested) == new_TP \cup new_symptomatic_tested

\* Faulty variant: only this tick's positives are kept.
TP_updated_overwritten(TP, new_TP) == new_TP

\* TP_arr | new_TP_arr
TP_updated(TP, new_TP) == TP \cup new_TP

\* ------------------------------------------------------------------ main.py
\* Symmetric adjacency matrices of multigraphs on Agents (self-loops allowed).
AdjacencyMatrices ==
  {m \in [Agents -> [Agents -> Multiplicities]] :
     /\ \A i, j \in Agents : m[i][j] = m[j][i]
     /\ \A i \in Agents : m[i][i] \in SelfLoops}

\* Nobody has been tested yet.
NoTestsYet == [symptomatic |-> {}, carrier |-> {}]

\* spread_to_neighbors is not called on its own.
NoSpreadCall ==
  [state |-> "none", from_group_arr |-> {}, prob_spread |-> ProbZero,
   adj_mat |-> IntArg(0), to_group_given |-> FALSE, to_group |-> {}, marked |-> {}]

NoBuildCall ==
  [state |-> "none", fn |-> "none", N |-> 0, n_divisions |-> 0, mean_degree |-> 0,
   degrees |-> <<>>, shuffles |-> <<>>, division_sizes |-> <<>>,
   H |-> [nodes |-> {}, edges |-> <<>>]]

NoTestingLocals ==
  [new_TP_arr |-> {}, test_comes_back_arr |-> {},
   new_symptomatic_tested_arr |-> {}, new_genpop_tested_arr |-> {},
   neighbors_traced |-> {}, neighbors_tested |-> {},
   pending_symptomatic |-> {}, pending_genpop |-> {}, pending_neighbors |-> {},
   steps_per_day |-> IntArg(0)]

\* The state simulation() holds when it enters the main loop, for the given
\* configuration, graph and random draws of init_states.
InitWith(c, m, exposed_inds, infected_inds, asymptomatic, incubation_durations) ==
  /\ cfg = c
  /\ adj_mat = m
  /\ E_arr = exposed_inds
  /\ I_arr = infected_inds
  /\ S_arr = Agents \ (infected_inds \cup exposed_inds)
  /\ A_arr = asymptomatic
  /\ R_arr = {}
  /\ Q_arr = {}
  /\ Q_left = [i \in Agents |-> 0 - c.STEPS_PER_DAY * Resolution]
  /\ E_left = [i \in Agents |-> IF i \in exposed_inds THEN incubation_durations[i]
                                ELSE 0 - c.STEPS_PER_DAY * Resolution]
  /\ TP_arr = {}
  /\ T_result_left = [i \in Agents |-> 0 - c.STEPS_PER_DAY * Resolution]
  /\ T_result_positive_arr = {}
  /\ new_Q_arr = {}
  /\ step_num = 0
  /\ pc = "infection"
  /\ warned = FALSE
  /\ tst = NoTestingLocals
  /\ T_admin = [i \in Agents |-> -1]
  /\ T_kind = NoTestsYet
  /\ Q_entered = [i \in Agents |-> -1]

\* The default of every entry of config.py, on the model's value classes.
BaseConfig ==
  [N |-> N,
   STEPS_PER_DAY |-> 2,
   INITIAL_INFECTED_NUM |-> 1,
   initial_exposed_num |-> 1,
   PROB_INFECT |-> ProbFrac,
   PROB_INFECT_EXPOSED_FACTOR |-> ProbFrac,
   RELATIVE_INFECTIOUSNESS_ASYMPTOMATIC |-> ProbFrac,
   DURATION_EXPOSED_INFECTS |-> 2,
   PROB_RECOVER |-> ProbFrac,
   DAYS_IN_QUARANTINE |-> 4,
   PROB_INFECTED_DETECTED |-> ProbFrac,
   PROB_NEIGHBOR_TRACED |-> ProbZero,
   PROB_EXPOSED_DETECTED |-> ProbFrac,
   QUARANTINE_NEIGHBORS |-> FALSE,
   TEST_NEIGHBORS |-> FALSE,
   TEST_DELAY_TIME |-> 0]

\* Configurations that vary the time resolution, the test delay and the
\* quarantine length, without and with contact tracing.
TimingConfigs ==
  {c \in {[BaseConfig EXCEPT !.STEPS_PER_DAY = spd, !.TEST_DELAY_TIME = d,
                             !.DAYS_IN_QUARANTINE = q, !.PROB_NEIGHBOR_TRACED = t,
                             !.INITIAL_INFECTED_NUM = ni, !.initial_exposed_num = 1 - ni] :
             spd \in StepsPerDayValues, d \in TestDelayTimes, q \in QuarantineDurations,
             t \in {ProbZero, ProbFrac}, ni \in 0 .. 1} :
     c.PROB_NEIGHBOR_TRACED # ProbZero =>
       c.STEPS_PER_DAY = 2 /\ c.DAYS_IN_QUARANTINE = 1}

\* Configurations that vary the infection parameters, without and with mass
\* testing.
InfectionConfigs ==
  {c \in {[BaseConfig EXCEPT !.STEPS_PER_DAY = 1, !.PROB_INFECT = p,
                             !.PROB_INFECT_EXPOSED_FACTOR = f,
                             !.RELATIVE_INFECTIOUSNESS_ASYMPTOMATIC = r,
                             !.DURATION_EXPOSED_INFECTS = e,
                             !.PROB_EXPOSED_DETECTED = g,
                             !.INITIAL_INFECTED_NUM = ni, !.initial_exposed_num = ne] :
             p \in {ProbZero, ProbFrac, ProbOne}, f \in {ProbZero, ProbOne},
             r \in {ProbZero, ProbOne}, e \in ExposedInfectsDurations,
             g \in {ProbZero, ProbFrac}, ni \in 0 .. 1, ne \in 0 .. 1} :
     /\ c.INITIAL_INFECTED_NUM + c.initial_exposed_num < N
     /\ c.PROB_EXPOSED_DETECTED # ProbZero => c.PROB_INFECT = ProbOne}

\* Configurations with contact tracing on, varying what is done to a traced
\* neighbor.
TracingConfigs ==
  {c \in {[BaseConfig EXCEPT !.PROB_NEIGHBOR_TRACED = t, !.QUARANTINE_NEIGHBORS = qn,
                             !.TEST_NEIGHBORS = tn, !.TEST_DELAY_TIME = d] :
             t \in {ProbZero, ProbFrac, ProbOne}, qn \in BOOLEAN, tn \in BOOLEAN,
             d \in TestDelayTimes} :
     c.PROB_NEIGHBOR_TRACED = ProbZero => c.QUARANTINE_NEIGHBORS /\ c.TEST_NEIGHBORS}

\* Configurations with a negative duration: simulation() reads config.py as
\* it is.
InvalidConfigs ==
  {[BaseConfig EXCEPT !.DAYS_IN_QUARANTINE = -3],
   [BaseConfig EXCEPT !.TEST_DELAY_TIME = -1],
   [BaseConfig EXCEPT !.DURATION_EXPOSED_INFECTS = -1]}

\* Configurations with one agent more, so that an infection step can have
\* two sources, or two susceptible agents in a row behind one source.
CrowdConfigs ==
  {[BaseConfig EXCEPT !.N = N + 1, !.STEPS_PER_DAY = 1, !.PROB_INFECT = p,
                      !.PROB_INFECT_EXPOSED_FACTOR = ProbOne,
                      !.RELATIVE_INFECTIOUSNESS_ASYMPTOMATIC = ProbOne,
                      !.PROB_EXPOSED_DETECTED = ProbZero,
                      !.DAYS_IN_QUARANTINE = 1, !.initial_exposed_num = ne] :
     p \in {ProbFrac, ProbOne}, ne \in 0 .. 1}

LiveConfigs ==
  {[BaseConfig EXCEPT !.STEPS_PER_DAY = spd, !.PROB_NEIGHBOR_TRACED = t,
                      !.DAYS_IN_QUARANTINE = 5] :
     spd \in StepsPerDayValues, t \in {ProbZero, ProbFrac}}

InitFrom(configs) ==
  \E c \in configs :
    /\ cfg = c
    /\ \E m \in AdjacencyMatrices :
         \E exposed_inds \in SUBSET Agents, infected_inds \in SUBSET Agents,
            asymptomatic \in SUBSET Agents,
            incubation_durations \in [Agents -> IncubationDurations] :
         /\ Cardinality(exposed_inds) = c.initial_exposed_num
         /\ Cardinality(infected_inds) = c.INITIAL_INFECTED_NUM
         /\ exposed_inds \cap infected_inds = {}
         /\ \A i \in Agents \ exposed_inds :
              incubation_durations[i] = CHOOSE d \in IncubationDurations : TRUE
         /\ InitWith(c, m, exposed_inds, infected_inds, asymptomatic, incubation_durations)
         /\ spread = NoSpreadCall
         /\ build = NoBuildCall

Init == InitFrom(TimingConfigs)
InitInfection == InitFrom(InfectionConfigs)
InitByName == InitFrom(TracingConfigs)
InitInvalid == InitFrom(InvalidConfigs)
\* Runs that start with one Exposed agent whose incubation lasts 1.5 or 2.5
\* ticks, at both time resolutions, with mass testing, without and with
\* contact tracing; the initially Infected agent has symptoms and no two agents
\* share more than one edge.
InitLive ==
  \E c \in LiveConfigs :
    /\ cfg = c
    /\ \E m \in AdjacencyMatrices :
         \E exposed_inds \in SUBSET Agents, infected_inds \in SUBSET Agents,
            asymptomatic \in SUBSET Agents,
            incubation_durations \in [Agents -> LongIncubationDurations] :
         /\ Cardinality(exposed_inds) = c.initial_exposed_num
         /\ Cardinality(infected_inds) = c.INITIAL_INFECTED_NUM
         /\ exposed_inds \cap infected_inds = {}
         /\ \A i \in Agents \ exposed_inds :
              incubation_durations[i] = CHOOSE d \in LongIncubationDurations : TRUE
         /\ asymptomatic \cap infected_inds = {}
         /\ \A i, j \in Agents : m[i][j] <= 1
         /\ InitWith(c, m, exposed_inds, infected_inds, asymptomatic, incubation_durations)
         /\ spread = NoSpreadCall
         /\ build = NoBuildCall

InitCrowd == InitFrom(CrowdConfigs) /\ \A i, j \in Agents : adj_mat[i][j] <= 1

\* The statement after each step function call of the loop body.
next_statement(p) ==
  CASE p = "infection" -> "incubation"
    [] p = "incubation" -> "testing"
    [] p = "testing" -> "quarantine"
    [] p = "quarantine" -> "recovery"

\* Faulty variant: np.copyto without its where mask.
copyto_everywhere(dst, src, where) == src

\* np.copyto(dst, src, where=(where > 0)): the elements of dst at the places
\* of where are overwritten with those of src, the others are kept.
copyto_where(dst, src, where) ==
  [i \in DOMAIN dst |-> IF i \in where THEN src[i] ELSE dst[i]]

\* One of the four spread_to_neighbors calls of infection_step raises.
infection_raises(E, El, I, A, Q, adj) ==
  LET src == infection_sources(E, El, I, A, Q)
  IN \E k \in 1 .. 4 : spread_raises(src[k].from, src[k].prob, adj)

\* Infection step. S -> E
infection_step ==
  /\ pc = "infection"
  /\ IF infection_raises(E_arr, E_left, I_arr, A_arr, Q_arr, MatrixArg(adj_mat))
     THEN pc' = "error" /\ UNCHANGED <<S_arr, E_arr, E_left>>
     ELSE /\ \E new_infected \in new_infected_results(S_arr, E_arr, E_left, I_arr, A_arr,
                                                       Q_arr, MatrixArg(adj_mat)) :
               \E incubation_durations \in [Agents -> IncubationDurations] :
                 /\ E_arr' = E_arr \cup new_infected
                 /\ E_left' = copyto_where(E_left, incubation_durations, new_infected)
                 /\ S_arr' = S_arr \ new_infected
          /\ pc' = next_statement(pc)
  /\ UNCHANGED <<cfg, adj_mat, I_arr, R_arr, A_arr, Q_arr, TP_arr, Q_left,
                 T_result_left, T_result_positive_arr, new_Q_arr, step_num,
                 warned, tst, T_admin, T_kind, spread, build,
                 Q_entered>>

\* Incubation step. E -> I
incubation_step ==
  /\ pc = "incubation"
  /\ LET El == [i \in Agents |-> E_left[i] - StepLength]
         moved == become_infected(E_arr, El)
     IN /\ E_left' = El
        /\ E_arr' = E_arr \ moved
        /\ I_arr' = I_arr \cup moved
  /\ pc' = next_statement(pc)
  /\ UNCHANGED <<cfg, adj_mat, S_arr, R_arr, A_arr, Q_arr, TP_arr, Q_left,
                 T_result_left, T_result_positive_arr, new_Q_arr, step_num,
                 warned, tst, T_admin, T_kind, spread, build,
                 Q_entered>>

\* What testing_step leaves behind when it returns normally.
testing_returns(a, s, gen, g, ct, traced, steps_per_day) ==
  /\ TP_arr' = TP_updated(TP_arr, a.new_TP_arr)
  /\ new_Q_arr' = ct.new_Q_arr
  /\ T_result_left' = ct.T_result_left
  /\ T_result_positive_arr' = ct.T_result_positive_arr
  /\ tst' = [new_TP_arr |-> a.new_TP_arr,
             test_comes_back_arr |-> a.test_comes_back_arr,
             new_symptomatic_tested_arr |-> s.new_symptomatic_tested_arr,
             new_genpop_tested_arr |-> gen,
             neighbors_traced |-> traced,
             neighbors_tested |-> ct.neighbors_tested,
             pending_symptomatic |-> pending_test_results_arr(a.T_result_left),
             pending_genpop |-> pending_test_results_arr(s.T_result_left),
             pending_neighbors |-> pending_test_results_arr(g.T_result_left),
             steps_per_day |-> steps_per_day]
  /\ T_admin' = [i \in Agents |->
                   IF i \in s.new_symptomatic_tested_arr \cup gen \cup ct.neighbors_tested
                   THEN step_num
                   ELSE IF i \in a.test_comes_back_arr THEN -1 ELSE T_admin[i]]
  /\ LET tested == s.new_symptomatic_tested_arr \cup gen \cup ct.neighbors_tested
     IN T_kind' = [symptomatic |-> ((T_kind.symptomatic \ a.test_comes_back_arr) \ tested)
                                     \cup s.new_symptomatic_tested_arr,
                   carrier |-> ((T_kind.carrier \ a.test_comes_back_arr) \ tested)
                                 \cup (tested \cap (E_arr \cup I_arr))]
  /\ pc' = next_statement(pc)

\* The exception of number_of_edges_to_group leaves simulation(): nothing is
\* assigned, no result is returned.
testing_raises ==
  /\ pc' = "error"
  /\ UNCHANGED <<TP_arr, new_Q_arr, T_result_left, T_result_positive_arr, tst, T_admin,
                 T_kind>>

\* testing_step with its parameters steps_per_day and adj_mat bound to the
\* given arguments. steps_per_day is handed to tests_analyzed, which does not
\* read it: it decreases T_result_left by 1. / config.STEPS_PER_DAY.
testing_step_body(steps_per_day, adj) ==
  LET a == tests_analyzed(T_result_left, T_result_positive_arr)
      delay == cfg.TEST_DELAY_TIME
  IN \E drawn \in random_subset(I_arr \ A_arr, Broadcast(prob_infected_detected_per_step)) :
       LET s == symptomatics_tested(drawn, I_arr, TP_arr, a.new_TP_arr, a.T_result_left,
                                    T_result_positive_arr, delay)
       IN \E gen \in random_subset(genpop_candidates(TP_arr, a.new_TP_arr, s.T_result_left),
                                   Broadcast(prob_exposed_detected_per_step)) :
            LET g == general_population_tested(gen, E_arr, I_arr, s.T_result_left,
                                               s.T_result_positive_arr, delay)
                new_Q == should_quarantine(a.new_TP_arr, s.new_symptomatic_tested_arr)
                no_tracing == [new_Q_arr |-> new_Q, neighbors_tested |-> {},
                               T_result_left |-> g.T_result_left,
                               T_result_positive_arr |-> g.T_result_positive_arr]
            IN IF cfg.PROB_NEIGHBOR_TRACED = ProbZero
               THEN testing_returns(a, s, gen, g, no_tracing, {}, steps_per_day)
               ELSE IF spread_raises(a.new_TP_arr, cfg.PROB_NEIGHBOR_TRACED, adj)
               THEN testing_raises
               ELSE \E traced \in spread_to_neighbors(a.new_TP_arr, cfg.PROB_NEIGHBOR_TRACED,
                                                      adj, Agents) :
                      testing_returns(a, s, gen, g,
                        contact_tracing(traced, E_arr, I_arr, TP_arr, a.new_TP_arr,
                                        g.T_result_left, g.T_result_positive_arr, new_Q,
                                        cfg.QUARANTINE_NEIGHBORS, cfg.TEST_NEIGHBORS, delay),
                        traced, steps_per_day)

\* Testing step as simulation() calls it: the 13th and 14th positional
\* arguments are adj_mat and config.STEPS_PER_DAY, the 13th and 14th
\* parameters are steps_per_day and adj_mat.
testing_step ==
  /\ pc = "testing"
  /\ testing_step_body(MatrixArg(adj_mat), IntArg(cfg.STEPS_PER_DAY))
  /\ UNCHANGED <<cfg, adj_mat, S_arr, E_arr, I_arr, R_arr, A_arr, Q_arr,
                 E_left, Q_left, step_num, warned, spread, build,
                 Q_entered>>

\* Testing step with every argument bound to the parameter of its name.
testing_step_by_name ==
  /\ pc = "testing"
  /\ testing_step_body(IntArg(cfg.STEPS_PER_DAY), MatrixArg(adj_mat))
  /\ UNCHANGED <<cfg, adj_mat, S_arr, E_arr, I_arr, R_arr, A_arr, Q_arr,
                 E_left, Q_left, step_num, warned, spread, build,
                 Q_entered>>

\* Quarantine step. Update Q
quarantine_step ==
  /\ pc = "quarantine"
  /\ LET Ql == [i \in Agents |-> Q_left[i] - StepLength]
         Q1 == Q_arr \ exit_quarantine(Q_arr, Ql, R_arr, TP_arr)
         entering == new_in_quarantine(new_Q_arr, Q1)
     IN /\ Q_arr' = Q1 \cup entering
        /\ Q_left' = [i \in Agents |-> IF i \in entering THEN cfg.DAYS_IN_QUARANTINE
                                       ELSE Ql[i]]
        /\ Q_entered' = [i \in Agents |-> IF i \in entering THEN step_num
                                          ELSE Q_entered[i]]
  /\ pc' = next_statement(pc)
  /\ UNCHANGED <<cfg, adj_mat, S_arr, E_arr, I_arr, R_arr, A_arr, TP_arr, E_left,
                 T_result_left, T_result_positive_arr, new_Q_arr, step_num,
                 warned, tst, T_admin, T_kind, spread, build>>

\* Stop condition. No more Infected or Exposed.
stop_condition(I, E) == I = {} /\ E = {}

\* Recovery step. I -> R, then the stop condition and the end of the for loop.
recovery_step ==
  /\ pc = "recovery"
  /\ \E new_recovered \in random_subset(I_arr, Broadcast(prob_recover_per_step)) :
       /\ R_arr' = R_arr \cup new_recovered
       /\ I_arr' = I_after_recovery(I_arr, new_recovered)
  /\ IF stop_condition(I_arr', E_arr)
     THEN pc' = "done" /\ UNCHANGED <<step_num, warned>>
     ELSE IF step_num + 1 < MAX_STEPS
     THEN pc' = "infection" /\ step_num' = step_num + 1 /\ UNCHANGED warned
     ELSE pc' = "done" /\ warned' = TRUE /\ UNCHANGED step_num
  /\ UNCHANGED <<cfg, adj_mat, S_arr, E_arr, A_arr, Q_arr, TP_arr, E_left, Q_left,
                 T_result_left, T_result_positive_arr, new_Q_arr, tst, T_admin,
                 T_kind, spread, build,
                 Q_entered>>

Next ==
  \/ infection_step
  \/ incubation_step
  \/ testing_step
  \/ quarantine_step
  \/ recovery_step

Spec == Init /\ [][Next]_vars
SpecInfection == InitInfection /\ [][Next]_vars

NextByName ==
  \/ infection_step
  \/ incubation_step
  \/ testing_step_by_name
  \/ quarantine_step
  \/ recovery_step

SpecByName == InitByName /\ [][NextByName]_vars

SpecInvalid == InitInvalid /\ [][Next]_vars
SpecCrowd == InitCrowd /\ [][Next]_vars

\* Control of simulation() between the step function calls of the for loop:
\* the interpreter runs the loop body statement by statement, each step
\* function returns or raises, so control leaves the statement it is at.
control_advances ==
  /\ pc \in {"infection", "incubation", "testing", "quarantine", "recovery"}
  /\ pc' \in {"infection", "incubation", "testing", "quarantine", "recovery",
              "done", "error"} \ {pc}

\* The for loop of simulation() runs on by itself: while the run has not
\* stopped, the statement that control is at is executed.
SpecLive == InitLive /\ [][Next]_vars /\ WF_pc(control_advances)

\* Numbers of nodes of a graph G the caller hands to simulation(G): config.N
\* or one more.
SuppliedNodeCounts == {N, N + 1}

\* Adjacency matrices of the graphs G the caller can supply.
SuppliedMatrices ==
  UNION {{m \in [0 .. (n - 1) -> [0 .. (n - 1) -> {0, 1}]] :
            /\ \A i, j \in 0 .. (n - 1) : m[i][j] = m[j][i]
            /\ \A i \in 0 .. (n - 1) : m[i][i] = 0} : n \in SuppliedNodeCounts}

\* simulation(G): init_states is called with config.N whatever G is.
InitSupplied ==
  /\ cfg = BaseConfig
  /\ \E m \in SuppliedMatrices :
       \E exposed_inds \in SUBSET Agents, infected_inds \in SUBSET Agents,
          asymptomatic \in SUBSET Agents,
          incubation_durations \in [Agents -> IncubationDurations] :
      /\ Cardinality(exposed_inds) = BaseConfig.initial_exposed_num
      /\ Cardinality(infected_inds) = BaseConfig.INITIAL_INFECTED_NUM
      /\ exposed_inds \cap infected_inds = {}
      /\ \A i \in Agents \ exposed_inds :
           incubation_durations[i] = CHOOSE d \in IncubationDurations : TRUE
      /\ InitWith(BaseConfig, m, exposed_inds, infected_inds, asymptomatic,
                  incubation_durations)
      /\ spread = NoSpreadCall
      /\ build = NoBuildCall

SpecSupplied == InitSupplied /\ [][Next]_vars

\* Configurations for direct calls of testing_step: both time resolutions,
\* both test delays.
DirectConfigs ==
  {[BaseConfig EXCEPT !.STEPS_PER_DAY = spd, !.TEST_DELAY_TIME = d] :
     spd \in StepsPerDayValues, d \in TestDelayTimes}

InitDirect == InitFrom(DirectConfigs)

\* testing_step called by name with a steps_per_day of the caller's choice.
testing_step_direct ==
  /\ pc = "testing"
  /\ \E steps_per_day \in StepsPerDayValues :
       testing_step_body(IntArg(steps_per_day), MatrixArg(adj_mat))
  /\ UNCHANGED <<cfg, adj_mat, S_arr, E_arr, I_arr, R_arr, A_arr, Q_arr,
                 E_left, Q_left, step_num, warned, spread, build,
                 Q_entered>>

\* A loop over the step functions whose caller chooses the steps_per_day it
\* hands to testing_step; the other steps are called as simulation() does.
NextDirect ==
  \/ infection_step
  \/ incubation_step
  \/ testing_step_direct
  \/ quarantine_step
  \/ recovery_step

SpecDirect == InitDirect /\ [][NextDirect]_vars

\* ----------------------------------------- spread_to_neighbors, called directly
\* Symmetric adjacency matrices with and without self-loops.
SpreadMatrices ==
  {m \in [Agents -> [Agents -> Multiplicities]] :
     /\ \A i, j \in Agents : m[i][j] = m[j][i]
     /\ \A i \in Agents : m[i][i] \in {0, 1}}

\* The adj_mat arguments: a matrix, or a stub that fails when it is queried.
SpreadGraphs == {MatrixArg(m) : m \in SpreadMatrices} \cup {IntArg(0)}

\* A call spread_to_neighbors(from_group_arr, prob_spread, adj_mat[, to_group]).
InitSpread ==
  /\ InitWith(BaseConfig, [i \in Agents |-> [j \in Agents |-> 0]], {}, {}, {},
              [i \in Agents |-> CHOOSE d \in IncubationDurations : TRUE])
  /\ \E from_group_arr \in SUBSET Agents, prob_spread \in {ProbZero, ProbFrac, ProbOne},
        adj \in SpreadGraphs, to_group_given \in BOOLEAN, to_group \in SUBSET Agents :
       /\ ~to_group_given => to_group = {}
       /\ spread = [state |-> "called", from_group_arr |-> from_group_arr,
                    prob_spread |-> prob_spread, adj_mat |-> adj,
                    to_group_given |-> to_group_given, to_group |-> to_group,
                    marked |-> {}]
  /\ build = NoBuildCall

\* to_group, or np.ones_like(from_group_arr) when it is None.
spread_to_group == IF spread.to_group_given THEN spread.to_group ELSE Agents

\* The call returns the marked, or raises.
spread_call ==
  /\ spread.state = "called"
  /\ IF spread_raises(spread.from_group_arr, spread.prob_spread, spread.adj_mat)
     THEN spread' = [spread EXCEPT !.state = "raised"]
     ELSE \E marked \in spread_to_neighbors(spread.from_group_arr, spread.prob_spread,
                                            spread.adj_mat, spread_to_group) :
            spread' = [spread EXCEPT !.state = "returned", !.marked = marked]
  /\ UNCHANGED <<cfg, adj_mat, S_arr, E_arr, I_arr, R_arr, A_arr, Q_arr, TP_arr,
                 E_left, Q_left, T_result_left, T_result_positive_arr, new_Q_arr,
                 step_num, pc, warned, tst, T_admin, T_kind, build,
                 Q_entered>>

NextSpread == spread_call

SpecSpread == InitSpread /\ [][NextSpread]_vars

\* ------------------------------------------------------ Simulation_graphs.py
\* np.arange(n)
arange(n) == [k \in 1 .. n |-> k - 1]

remove_at(seq, k) == SubSeq(seq, 1, k - 1) \o SubSeq(seq, k + 1, Len(seq))

\* Every order np.random.shuffle can leave the array in.
RECURSIVE shuffled(_)
shuffled(seq) ==
  IF seq = <<>> THEN {<<>>}
  ELSE UNION {{<<seq[k]>> \o t : t \in shuffled(remove_at(seq, k))} :
                k \in {k \in 1 .. Len(seq) : \A j \in 1 .. (k - 1) : seq[j] # seq[k]}}

\* Faulty variant: only the edges' endpoints become nodes.
edges2graph_no_isolated(edges, n) ==
  [nodes |-> {edges[k][1] : k \in DOMAIN edges} \cup {edges[k][2] : k \in DOMAIN edges},
   edges |-> edges]

\* Faulty variant: a simple graph, self-loops dropped.
edges2graph_simple(edges, n) ==
  [nodes |-> 0 .. (n - 1),
   edges |-> SelectSeq(edges, LAMBDA e : e[1] # e[2])]

\* MultiGraph with the nodes np.arange(N) and the edges, in the order given.
edges2graph(edges, n) ==
  [nodes |-> {arange(n)[k] : k \in 1 .. n} \cup {edges[k][1] : k \in DOMAIN edges}
               \cup {edges[k][2] : k \in DOMAIN edges},
   edges |-> edges]

\* np.concatenate([np.full(degree, i) for i, degree in enumerate(degrees)])
RECURSIVE nodes_multiple(_, _)
nodes_multiple(degrees, n) ==
  IF n = 0 THEN <<>>
  ELSE nodes_multiple(degrees, n - 1) \o [k \in 1 .. degrees[n - 1] |-> n - 1]

\* nodes_multiple[:-1] if the length is odd
without_odd_stub(seq) ==
  IF Len(seq) % 2 = 1 THEN SubSeq(seq, 1, Len(seq) - 1) ELSE seq

\* nodes_multiple.reshape((nodes_multiple.shape[0] // 2, 2))
reshape_pairs(seq) == [k \in 1 .. (Len(seq) \div 2) |-> <<seq[2 * k - 1], seq[2 * k]>>]

\* np.diff(np.linspace(0, numer/denom, n_divisions+1).astype(int))
division_sizes(numer, denom, n_divisions) ==
  [d \in 1 .. n_divisions |->
     (d * numer) \div (denom * n_divisions) - ((d - 1) * numer) \div (denom * n_divisions)]

\* np.stack([all_nodes[i:], all_nodes[:-i]], axis=1)
offset_edges(all_nodes, i) ==
  [p \in 1 .. (IF Len(all_nodes) > i THEN Len(all_nodes) - i ELSE 0) |->
     <<all_nodes[p + i], all_nodes[p]>>]

\* Faulty variant: each node is connected only to the one division_size
\* places later.
division_edges_last_offset(all_nodes, division_size) ==
  IF division_size = 0 THEN <<>> ELSE offset_edges(all_nodes, division_size)

\* The edge groups of one division: for i in range(1, division_size + 1).
RECURSIVE division_edges(_, _)
division_edges(all_nodes, division_size) ==
  IF division_size = 0 THEN <<>>
  ELSE division_edges(all_nodes, division_size - 1) \o offset_edges(all_nodes, division_size)

\* genereate_local_edges: the edges of the divisions 1 .. d, shuffles[d] being
\* all_nodes after the shuffle of division d.
RECURSIVE genereate_local_edges(_, _, _)
genereate_local_edges(shuffles, sizes, d) ==
  IF d = 0 THEN <<>>
  ELSE genereate_local_edges(shuffles, sizes, d - 1) \o division_edges(shuffles[d], sizes[d])

\* np.concatenate(edges_groups) raises ValueError: no group was appended.
local_edges_raises(sizes) == \A d \in DOMAIN sizes : sizes[d] = 0

\* np.stack([np.full_like(neighbors, node), neighbors], axis=1) with
\* neighbors = all_nodes[j + 1:j + 1 + n_neighbors]; j counts from 1 here.
successor_edges(all_nodes, j, n_neighbors) ==
  [q \in 1 .. (IF n_neighbors < Len(all_nodes) - j THEN n_neighbors ELSE Len(all_nodes) - j) |->
     <<all_nodes[j], all_nodes[j + q]>>]

\* for j in range(N), within one division
RECURSIVE division_edges_from_degrees(_, _, _, _)
division_edges_from_degrees(all_nodes, divisions_per_node, division_ind, j) ==
  IF j = 0 THEN <<>>
  ELSE division_edges_from_degrees(all_nodes, divisions_per_node, division_ind, j - 1)
         \o successor_edges(all_nodes, j, divisions_per_node[all_nodes[j]][division_ind])

\* for division_ind in range(n_divisions)
RECURSIVE edges_from_degrees(_, _, _)
edges_from_degrees(shuffles, divisions_per_node, d) ==
  IF d = 0 THEN <<>>
  ELSE edges_from_degrees(shuffles, divisions_per_node, d - 1)
         \o division_edges_from_degrees(shuffles[d], divisions_per_node, d, Len(shuffles[d]))

\* edges[np.random.random(len(edges)) < 0.5], kept being the rows drawn below 0.5
RECURSIVE rows_kept(_, _, _)
rows_kept(edges, kept, k) ==
  IF k = 0 THEN <<>>
  ELSE rows_kept(edges, kept, k - 1) \o (IF k \in kept THEN <<edges[k]>> ELSE <<>>)

\* The calls of the three builders.
BuilderCalls ==
  {[NoBuildCall EXCEPT !.state = "called", !.fn = "generate_scale_free_graph", !.N = n] :
     n \in 1 .. GraphNodes}
  \cup {[NoBuildCall EXCEPT !.state = "called", !.fn = "generate_local_graph", !.N = n,
                            !.n_divisions = nd, !.mean_degree = md] :
          n \in 1 .. GraphNodes, nd \in NDivisions, md \in MeanDegrees}
  \cup {[NoBuildCall EXCEPT !.state = "called", !.fn = "generate_local_scale_free_graph",
                            !.N = n, !.n_divisions = nd] :
          n \in 1 .. GraphNodes, nd \in NDivisions}

InitGraph ==
  /\ InitWith(BaseConfig, [i \in Agents |-> [j \in Agents |-> 0]], {}, {}, {},
              [i \in Agents |-> CHOOSE d \in IncubationDurations : TRUE])
  /\ spread = NoSpreadCall
  /\ build \in BuilderCalls

generate_scale_free_graph ==
  /\ build.state = "called"
  /\ build.fn = "generate_scale_free_graph"
  /\ \E degrees \in [0 .. (build.N - 1) -> DegreeTargets] :
       \E shuffle \in shuffled(nodes_multiple(degrees, build.N)) :
         build' = [build EXCEPT !.state = "returned", !.degrees = degrees,
                     !.shuffles = <<shuffle>>,
                     !.H = edges2graph(reshape_pairs(without_odd_stub(shuffle)), build.N)]
  /\ UNCHANGED <<cfg, adj_mat, S_arr, E_arr, I_arr, R_arr, A_arr, Q_arr, TP_arr,
                 E_left, Q_left, T_result_left, T_result_positive_arr, new_Q_arr,
                 step_num, pc, warned, tst, T_admin, T_kind, spread,
                 Q_entered>>

generate_local_graph ==
  /\ build.state = "called"
  /\ build.fn = "generate_local_graph"
  /\ LET sizes == division_sizes(build.mean_degree, 2, build.n_divisions)
     IN \E shuffles \in [1 .. build.n_divisions -> shuffled(arange(build.N))] :
          IF local_edges_raises(sizes)
          THEN build' = [build EXCEPT !.state = "raised", !.division_sizes = sizes]
          ELSE build' = [build EXCEPT !.state = "returned", !.division_sizes = sizes,
                           !.shuffles = shuffles,
                           !.H = edges2graph(genereate_local_edges(shuffles, sizes,
                                                                   build.n_divisions),
                                             build.N)]
  /\ UNCHANGED <<cfg, adj_mat, S_arr, E_arr, I_arr, R_arr, A_arr, Q_arr, TP_arr,
                 E_left, Q_left, T_result_left, T_result_positive_arr, new_Q_arr,
                 step_num, pc, warned, tst, T_admin, T_kind, spread,
                 Q_entered>>

generate_local_scale_free_graph ==
  /\ build.state = "called"
  /\ build.fn = "generate_local_scale_free_graph"
  /\ \E degrees \in [0 .. (build.N - 1) -> LocalDegreeTargets] :
       \E shuffles \in [1 .. build.n_divisions -> shuffled(arange(build.N))] :
         LET divisions_per_node ==
               [i \in 0 .. (build.N - 1) |-> division_sizes(degrees[i], 1, build.n_divisions)]
             edges == edges_from_degrees(shuffles, divisions_per_node, build.n_divisions)
         IN \E kept \in SUBSET (1 .. Len(edges)) :
              build' = [build EXCEPT !.state = "returned", !.degrees = degrees,
                          !.shuffles = shuffles,
                          !.H = edges2graph(rows_kept(edges, kept, Len(edges)), build.N)]
  /\ UNCHANGED <<cfg, adj_mat, S_arr, E_arr, I_arr, R_arr, A_arr, Q_arr, TP_arr,
                 E_left, Q_left, T_result_left, T_result_positive_arr, new_Q_arr,
                 step_num, pc, warned, tst, T_admin, T_kind, spread,
                 Q_entered>>

NextGraph ==
  \/ generate_scale_free_graph
  \/ generate_local_graph
  \/ generate_local_scale_free_graph

SpecGraph == InitGraph /\ [][NextGraph]_vars

\* ------------------------------------------------------------------- claims

\* C1: in the initial state and after every step function of every tick each
\* agent is in exactly one of Susceptible, Exposed, Infected, Recovered: the
\* four sets are pairwise disjoint and their sizes sum to N.
C1_Partition ==
  /\ S_arr \cap E_arr = {} /\ S_arr \cap I_arr = {} /\ S_arr \cap R_arr = {}
  /\ E_arr \cap I_arr = {} /\ E_arr \cap R_arr = {} /\ I_arr \cap R_arr = {}
  /\ Cardinality(S_arr) + Cardinality(E_arr) + Cardinality(I_arr) + Cardinality(R_arr) = cfg.N

\* A run that began with one Infected and nobody Exposed has nobody
\* Susceptible left, one agent Infected and one Recovered: infection,
\* incubation and recovery have all moved an agent.
C1_Witness ==
  /\ cfg.initial_exposed_num = 0
  /\ S_arr = {} /\ R_arr # {} /\ I_arr # {}

\* C2: once an agent's TestedPositive flag is true it stays true; no step
\* function clears it.
C2_TestedPositiveSticky == [][TP_arr \subseteq TP_arr']_vars

\* A testing step has run in which no new positive returned, with an agent
\* TestedPositive since an earlier tick.
C2_Witness ==
  /\ pc = "quarantine" /\ TP_arr # {} /\ tst.new_TP_arr = {}

\* C3: every tick applies infection, incubation, testing, quarantine and
\* recovery in this order, each on the state the earlier ones of the tick
\* left: the symptomatic tests are drawn from the Infected of after incubation,
\* and after the quarantine step the agents testing flagged in this tick, and
\* the positives not yet Recovered before this tick's recovery, are Quarantined.
C3_OrderStep ==
  /\ pc = "infection" => pc' = "incubation"
  /\ pc = "incubation" => pc' = "testing"
  /\ pc = "testing" => pc' = "quarantine"
  /\ pc = "quarantine" => pc' = "recovery"
  /\ pc = "recovery" => pc' \in {"infection", "done"}
  /\ pc' = "quarantine" => tst'.new_symptomatic_tested_arr \subseteq I_arr
  /\ pc' = "recovery" => (new_Q_arr \cup (TP_arr \ R_arr)) \subseteq Q_arr'

C3_FixedOrder == [][C3_OrderStep]_vars

\* C4: the loop ends after at most MAX_STEPS ticks, without error: at the end
\* of the first tick that leaves no Infected and no Exposed, or after
\* MAX_STEPS ticks, and the warning is printed exactly in the second case.
C4_Terminates ==
  /\ pc # "error"
  /\ step_num < MAX_STEPS
  /\ (pc = "infection" /\ step_num > 0) => ~stop_condition(I_arr, E_arr)
  /\ warned => pc = "done"
  /\ pc = "done" =>
       (warned <=> (step_num = MAX_STEPS - 1 /\ ~stop_condition(I_arr, E_arr)))
  /\ (pc = "done" /\ ~warned) => stop_condition(I_arr, E_arr)

\* C5: from a state with no Infected and no Exposed, every transition of a
\* further tick leaves the four compartment counts unchanged.
C5_Step ==
  stop_condition(I_arr, E_arr) =>
    /\ Cardinality(S_arr') = Cardinality(S_arr)
    /\ Cardinality(E_arr') = Cardinality(E_arr)
    /\ Cardinality(I_arr') = Cardinality(I_arr)
    /\ Cardinality(R_arr') = Cardinality(R_arr)

C5_IdempotentStopping == [][C5_Step]_vars

\* A whole tick has run from a state with nobody Infected or Exposed, on a
\* graph with an edge, with infection probability one, and a test was given.
C5_Witness ==
  /\ pc = "done" /\ step_num = 0
  /\ tst.new_genpop_tested_arr # {}
  /\ cfg.INITIAL_INFECTED_NUM = 0 /\ cfg.initial_exposed_num = 0
  /\ cfg.PROB_INFECT = ProbOne
  /\ \E i, j \in Agents : i # j /\ adj_mat[i][j] > 0

\* C6: in quarantine_step a Quarantined, TestedPositive, not Recovered agent
\* stays Quarantined whatever its countdown; an agent that was TestedPositive
\* before this tick and is Recovered leaves Quarantine whatever its countdown.
C6_Step ==
  pc = "quarantine" =>
    /\ \A i \in (Q_arr \cap TP_arr) \ R_arr : i \in Q_arr'
    /\ \A i \in ((Q_arr \cap TP_arr) \cap R_arr) \ tst.new_TP_arr : i \notin Q_arr'

C6_QuarantineOverride == [][C6_Step]_vars

\* After a quarantine step, a known positive that has not Recovered is still
\* Quarantined although its countdown has expired.
C6_Witness ==
  /\ pc = "recovery"
  /\ \E i \in (Q_arr \cap TP_arr) \ R_arr : BelowEpsilon(Q_left[i])

\* After a quarantine step, a known positive that has Recovered is out of
\* Quarantine although its countdown has not expired.
C6_WitnessReleased ==
  /\ pc = "recovery"
  /\ \E i \in (TP_arr \cap R_arr) \ Q_arr : Q_left[i] > 0

\* The per-edge probability of the sub-population a source j belongs to.
C7_SourceProb(j) ==
  ProbMul(ProbMul(prob_infect_per_step,
                  IF j \in I_arr THEN ProbOne ELSE cfg.PROB_INFECT_EXPOSED_FACTOR),
          IF j \in A_arr THEN cfg.RELATIVE_INFECTIOUSNESS_ASYMPTOMATIC ELSE ProbOne)

\* C7: infection_step moves an agent to Exposed only if, when the step began,
\* it was Susceptible and not Quarantined and had an edge to an agent that was
\* not Quarantined, was Infected or Exposed with incubation_left <=
\* duration_exposed_infects, and had a non-zero per-edge probability.
C7_Step ==
  pc = "infection" =>
    \A i \in E_arr' \ E_arr :
      /\ i \in S_arr
      /\ i \notin Q_arr
      /\ \E j \in Agents :
           /\ adj_mat[i][j] > 0
           /\ j \notin Q_arr
           /\ j \in I_arr \/ (j \in E_arr /\ E_left[j] <= cfg.DURATION_EXPOSED_INFECTS)
           /\ C7_SourceProb(j) # ProbZero

C8_NoRetest ==
  /\ tst.new_symptomatic_tested_arr \cap (tst.pending_symptomatic \cup TP_arr) = {}
  /\ tst.new_genpop_tested_arr \cap (tst.pending_genpop \cup TP_arr) = {}
  /\ tst.neighbors_tested \cap (tst.pending_neighbors \cup TP_arr) = {}

\* A testing step has traced a neighbor whose result is pending, with neighbor
\* testing on, while a symptomatic Infected agent also had a result pending.
C8_Witness ==
  /\ pc = "quarantine"
  /\ cfg.TEST_NEIGHBORS
  /\ tst.neighbors_traced \cap tst.pending_neighbors # {}
  /\ (I_arr \ A_arr) \cap tst.pending_symptomatic # {}

\* C9: within one testing step no agent is tested by more than one of the
\* three pathways, for every test_delay_time >= 0.
C9_OneTestPerTick ==
  /\ tst.new_symptomatic_tested_arr \cap tst.new_genpop_tested_arr = {}
  /\ tst.new_symptomatic_tested_arr \cap tst.neighbors_tested = {}
  /\ tst.new_genpop_tested_arr \cap tst.neighbors_tested = {}

\* ceil(test_delay_time * steps_per_day), at least 1: the ticks a result takes.
C10_TicksToResult ==
  LET ticks == (cfg.TEST_DELAY_TIME + StepLength - 1) \div StepLength
  IN IF ticks < 1 THEN 1 ELSE ticks

\* C10: a test administered at tick t returns exactly at the testing step of
\* tick t + max(1, ceil(test_delay_time * steps_per_day)): a testing step
\* returns the results that are due and no others, and no test is overdue.
C10_Step ==
  (pc = "testing" /\ pc' = "quarantine") =>
    \A i \in Agents :
      /\ i \in tst'.test_comes_back_arr <=>
           (T_admin[i] >= 0 /\ step_num = T_admin[i] + C10_TicksToResult)
      /\ T_admin[i] >= 0 => step_num <= T_admin[i] + C10_TicksToResult

C10_ResultOnTime == [][C10_Step]_vars

\* C11: every agent the symptomatic pathway tests in a tick is Quarantined
\* when the quarantine step of that tick ends, while the result of that test
\* has not returned and the agent is not TestedPositive.
C11_Step ==
  pc = "quarantine" =>
    \A i \in tst.new_symptomatic_tested_arr :
      /\ i \in Q_arr'
      /\ i \notin TP_arr'
      /\ T_admin[i] = step_num

C11_SymptomaticQuarantined == [][C11_Step]_vars

\* After a quarantine step, an agent the symptomatic pathway tested in this
\* tick has just entered Quarantine and its result is still awaited.
C11_Witness ==
  /\ pc = "recovery"
  /\ \E i \in tst.new_symptomatic_tested_arr :
       /\ i \in Q_arr /\ Q_left[i] = cfg.DAYS_IN_QUARANTINE
       /\ T_admin[i] = step_num /\ i \notin TP_arr

\* C12: the symptomatic pathway tests only agents that are Infected and not
\* Asymptomatic, and each of its tests latches a positive result that stays
\* latched; at the testing step in which the result of such a test returns the
\* agent becomes TestedPositive.
C12_Step ==
  pc = "testing" =>
    LET a == tests_analyzed(T_result_left, T_result_positive_arr)
    IN /\ T_kind.symptomatic \subseteq T_result_positive_arr
       /\ \A i \in T_kind.symptomatic \cap a.test_comes_back_arr : i \in TP_arr'
       /\ pc' = "quarantine" =>
            tst'.new_symptomatic_tested_arr \subseteq
              ((I_arr \ A_arr) \cap T_result_positive_arr')

C12_SymptomaticTestsPositive == [][C12_Step]_vars

\* C13: a general-population test latches a positive result if and only if
\* the tested agent is Exposed or Infected when it is tested; an agent becomes
\* TestedPositive only by a test given while it was Exposed or Infected.
C13_Step ==
  (pc = "testing" /\ pc' = "quarantine") =>
    /\ \A i \in tst'.new_genpop_tested_arr :
         i \in T_result_positive_arr' <=> i \in E_arr \cup I_arr
    /\ (TP_arr' \ TP_arr) \subseteq T_kind.carrier

C13_PositiveIffCarrier == [][C13_Step]_vars

\* C14: the traced are neighbors of agents whose positive result returned in
\* this tick; tracing adds a traced neighbor to the should-quarantine set iff
\* quarantine_neighbors is on and it is not TestedPositive, and tests it iff
\* test_neighbors is on and it is neither TestedPositive nor pending, each
\* switch on its own; with nobody traced (both switches off, or
\* prob_neighbor_traced = 0) the should-quarantine set, the test timers and
\* the latched results are what the other two pathways left.
C14_Step ==
  (pc = "testing" /\ pc' = "quarantine") =>
    LET a == tests_analyzed(T_result_left, T_result_positive_arr)
        t == tst'
        traced == t.neighbors_traced
        tested == t.new_symptomatic_tested_arr \cup t.new_genpop_tested_arr
                    \cup t.neighbors_tested
    IN /\ \A i \in traced : \E j \in t.new_TP_arr : adj_mat[i][j] > 0
       /\ cfg.PROB_NEIGHBOR_TRACED = ProbZero => traced = {}
       /\ new_Q_arr' = (t.new_TP_arr \cup t.new_symptomatic_tested_arr)
                         \cup (IF cfg.QUARANTINE_NEIGHBORS THEN traced \ TP_arr' ELSE {})
       /\ t.neighbors_tested = IF cfg.TEST_NEIGHBORS
                               THEN traced \ (TP_arr' \cup t.pending_neighbors)
                               ELSE {}
       /\ T_result_left' = [i \in Agents |-> IF i \in tested THEN cfg.TEST_DELAY_TIME
                                             ELSE a.T_result_left[i]]
       /\ T_result_positive_arr' =
            T_result_positive_arr \cup (tested \cap (E_arr \cup I_arr))

C14_ContactTracing == [][C14_Step]_vars

\* A testing step has traced a neighbor and tested it without flagging it
\* for Quarantine: test_neighbors is on and quarantine_neighbors is off.
C14_Witness ==
  /\ pc = "quarantine"
  /\ cfg.TEST_NEIGHBORS /\ ~cfg.QUARANTINE_NEIGHBORS
  /\ \E i \in tst.neighbors_tested : i \notin new_Q_arr

\* A testing step has traced a neighbor and flagged it for Quarantine without
\* testing it: quarantine_neighbors is on and test_neighbors is off.
C14_WitnessQuarantined ==
  /\ pc = "quarantine"
  /\ cfg.QUARANTINE_NEIGHBORS /\ ~cfg.TEST_NEIGHBORS
  /\ \E i \in tst.neighbors_traced :
       i \in new_Q_arr /\ i \notin tst.new_symptomatic_tested_arr \cup TP_arr

\* C15: a call of spread_to_neighbors with prob_spread = 0 returns with no
\* agent marked, for every source set, graph and target group, also when the
\* adjacency matrix is a stub that fails as soon as it is read.
C15_ZeroSpread ==
  (spread.state \in {"returned", "raised"} /\ spread.prob_spread = ProbZero) =>
    (spread.state = "returned" /\ spread.marked = {})

\* A call with prob_spread = 0, a non-empty source set, a non-empty target
\* group and the failing stub as adjacency matrix has returned.
C15_Witness ==
  /\ spread.state = "returned"
  /\ spread.prob_spread = ProbZero
  /\ spread.adj_mat.kind = "int"
  /\ spread.from_group_arr # {}
  /\ spread_to_group # {}

\* C16: every agent spread_to_neighbors marks is in to_group (any agent when
\* to_group is omitted) and has at least one edge, counted with multiplicity,
\* to a member of from_group_arr, for prob_spread 0, fractional and 1.
C16_MarkedAreEligibleNeighbors ==
  spread.state = "returned" =>
    \A i \in spread.marked :
      /\ i \in spread_to_group
      /\ spread.from_group_arr # {}
      /\ SumOver(spread.from_group_arr, spread.adj_mat.m[i]) > 0

\* A call with prob_spread = 1 has marked an agent and left unmarked an agent
\* outside to_group that has an edge to the source set.
C16_Witness ==
  /\ spread.state = "returned"
  /\ spread.prob_spread = ProbOne
  /\ spread.marked # {}
  /\ \E i \in Agents \ spread_to_group :
       SumOver(spread.from_group_arr, spread.adj_mat.m[i]) > 0

\* A call with prob_spread = 1 has left unmarked an agent of to_group that has
\* no edge to the non-empty source set.
C16_WitnessUnconnected ==
  /\ spread.state = "returned"
  /\ spread.prob_spread = ProbOne
  /\ spread.from_group_arr # {}
  /\ spread.adj_mat.kind = "matrix"
  /\ \E i \in spread_to_group \ spread.marked :
       SumOver(spread.from_group_arr, spread.adj_mat.m[i]) = 0

\* The graph has exactly one edge, and it joins i and j.
C17_OnlyEdge(i, j) ==
  /\ i # j
  /\ adj_mat[i][j] = 1
  /\ \A a, b \in Agents : {a, b} # {i, j} => adj_mat[a][b] = 0

\* C17: with prob_infect = 1 per step, prob_infect_exposed_factor = 0, nobody
\* Asymptomatic and nobody Quarantined, on a graph whose only edge joins an
\* Infected and a Susceptible node, infection_step always leaves the
\* Susceptible node Exposed and the Infected unchanged.
C17_Step ==
  ( /\ pc = "infection"
    /\ prob_infect_per_step = ProbOne
    /\ cfg.PROB_INFECT_EXPOSED_FACTOR = ProbZero
    /\ A_arr = {} /\ Q_arr = {} ) =>
    \A i \in I_arr, j \in S_arr :
      C17_OnlyEdge(i, j) => (j \in E_arr' /\ j \notin S_arr' /\ I_arr' = I_arr)

C17_CertainInfection == [][C17_Step]_vars

\* The first infection step of such a run has ended: the run began with one
\* Infected and nobody Exposed, and the other end of the only edge is Exposed.
C17_Witness ==
  /\ pc = "incubation" /\ step_num = 0
  /\ cfg.PROB_INFECT = ProbOne /\ cfg.STEPS_PER_DAY = 1
  /\ cfg.PROB_INFECT_EXPOSED_FACTOR = ProbZero
  /\ cfg.INITIAL_INFECTED_NUM = 1 /\ cfg.initial_exposed_num = 0
  /\ A_arr = {} /\ Q_arr = {}
  /\ \E i \in I_arr, j \in E_arr : C17_OnlyEdge(i, j)

\* C18: quarantine_step puts into Quarantine exactly the flagged agents that
\* are not Quarantined after the exit phase and sets their countdown to
\* days_in_quarantine; an agent still Quarantined after the exit phase, flagged
\* or not, keeps its decreased countdown; no unflagged agent enters.
C18_Step ==
  pc = "quarantine" =>
    LET Ql == [i \in Agents |-> Q_left[i] - StepLength]
        still == Q_arr \ exit_quarantine(Q_arr, Ql, R_arr, TP_arr)
    IN /\ Q_arr' = still \cup new_Q_arr
       /\ (Q_arr' \ Q_arr) \subseteq new_Q_arr
       /\ \A i \in new_Q_arr \ still : Q_left'[i] = cfg.DAYS_IN_QUARANTINE
       /\ \A i \in Agents \ (new_Q_arr \ still) : Q_left'[i] = Ql[i]

C18_QuarantineEntry == [][C18_Step]_vars

\* After a quarantine step an agent flagged in this tick, whose positive
\* result has returned, is Quarantined with a countdown that was not reset.
C18_Witness ==
  /\ pc = "recovery"
  /\ \E i \in (new_Q_arr \cap Q_arr) \cap TP_arr : Q_left[i] # cfg.DAYS_IN_QUARANTINE

\* C19: at the end of every quarantine step no agent is Quarantined,
\* TestedPositive and Recovered, agents whose positive result returned in this
\* tick included.
C19_NoRecoveredPositiveQuarantined ==
  pc = "recovery" => (Q_arr \cap TP_arr) \cap R_arr = {}

\* The configuration has a negative duration.
C20_InvalidConfig ==
  \/ cfg.DAYS_IN_QUARANTINE < 0
  \/ cfg.TEST_DELAY_TIME < 0
  \/ cfg.DURATION_EXPOSED_INFECTS < 0

\* C20: a run whose configuration is not valid fails before any population
\* state is created or mutated: no step function changes the population, the
\* run is in the error state.
C20_Step ==
  C20_InvalidConfig =>
    /\ pc' = "error"
    /\ UNCHANGED <<S_arr, E_arr, I_arr, R_arr, Q_arr, TP_arr, E_left, Q_left,
                   T_result_left, T_result_positive_arr>>

C20_FailsFast == [][C20_Step]_vars

\* C23: incubation_step decreases incubation_left of every agent by one tick
\* and moves to Infected exactly the Exposed agents whose decreased countdown
\* is below epsilon; after the step every agent still Exposed has a countdown
\* that is not below epsilon.
C23_Step ==
  pc = "incubation" =>
    LET moved == {i \in E_arr : BelowEpsilon(E_left[i] - StepLength)}
    IN /\ \A i \in Agents : E_left'[i] = E_left[i] - StepLength
       /\ I_arr' = I_arr \cup moved
       /\ E_arr' = E_arr \ moved
       /\ I_arr \cap moved = {}
       /\ \A i \in E_arr' : ~BelowEpsilon(E_left'[i])

C23_IncubationEnds == [][C23_Step]_vars

\* An incubation step has just moved one agent to Infected (its countdown
\* ended within this tick) and left another agent Exposed.
C23_Witness ==
  /\ pc = "testing"
  /\ \E i \in I_arr : BelowEpsilon(E_left[i]) /\ E_left[i] > 0 - StepLength
  /\ \E j \in E_arr : ~BelowEpsilon(E_left[j])

\* C24: in a driver run with prob_neighbor_traced > 0, a testing step in which
\* a positive result returns traces over the edges of the contact graph and
\* the run does not end in an error.
C24_Step ==
  ( /\ pc = "testing"
    /\ cfg.PROB_NEIGHBOR_TRACED # ProbZero
    /\ tests_analyzed(T_result_left, T_result_positive_arr).new_TP_arr # {} ) =>
    /\ pc' = "quarantine"
    /\ \A i \in tst'.neighbors_traced : \E j \in tst'.new_TP_arr : adj_mat[i][j] > 0

C24_TracingOverGraph == [][C24_Step]_vars

\* C28: on every transition each agent stays in its compartment or moves to
\* the next one of Susceptible, Exposed, Infected, Recovered; nobody moves
\* back, nobody leaves Recovered, the Susceptible count does not increase and
\* the Recovered count does not decrease.
C28_Step ==
  /\ \A i \in Agents :
       /\ i \in S_arr' => i \in S_arr
       /\ i \in E_arr' => i \in S_arr \cup E_arr
       /\ i \in I_arr' => i \in E_arr \cup I_arr
       /\ i \in R_arr' => i \in I_arr \cup R_arr
       /\ i \in R_arr => i \in R_arr'
  /\ Cardinality(S_arr') <= Cardinality(S_arr)
  /\ Cardinality(R_arr') >= Cardinality(R_arr)

C28_ForwardOnly == [][C28_Step]_vars

\* A run that began with one Infected and one Susceptible agent has ended
\* within its first tick with both Recovered: one agent went through
\* Exposed, Infected and Recovered in a single tick.
C28_Witness ==
  /\ pc = "done" /\ step_num = 0
  /\ cfg.INITIAL_INFECTED_NUM = 1 /\ cfg.initial_exposed_num = 0
  /\ R_arr = Agents

\* C29: no TestedPositive agent is Susceptible, and an agent becomes
\* TestedPositive only by a test given while it was Exposed or Infected.
C29_Step ==
  /\ TP_arr' \cap S_arr' = {}
  /\ \A i \in TP_arr' \ TP_arr :
       i \in T_kind.carrier /\ i \in (E_arr \cup I_arr) \cup R_arr

C29_NoFalsePositive == [][C29_Step]_vars

\* A testing step has returned the result of a test given to a Susceptible
\* agent: the agent is still Susceptible and not TestedPositive.
C29_Witness ==
  /\ pc = "quarantine"
  /\ \E i \in tst.test_comes_back_arr \cap S_arr : i \notin TP_arr

\* C30: at the end of every tick every agent that is TestedPositive and not
\* Recovered is Quarantined.
C30_PositivesQuarantined ==
  (pc = "done" \/ (pc = "infection" /\ step_num > 0)) => (TP_arr \ R_arr) \subseteq Q_arr

\* A tick has ended with an agent TestedPositive, not Recovered and
\* Quarantined although its quarantine countdown has expired.
C30_Witness ==
  /\ pc = "infection" /\ step_num > 0
  /\ \E i \in (TP_arr \ R_arr) \cap Q_arr : BelowEpsilon(Q_left[i])

\* C25: in every driver run, a run given a graph G by the caller included,
\* the population state vectors have exactly as many entries as the
\* contact graph has nodes, and the node ids are the agent indices.
C25_SameSize ==
  /\ DOMAIN adj_mat = DOMAIN E_left
  /\ DOMAIN adj_mat = Agents

\* C26: a testing step that was handed a number steps_per_day decreases the
\* test_result_left of every agent whose result does not come back and who is
\* not tested in this step by 1/steps_per_day day.
C26_Step ==
  (pc = "testing" /\ pc' = "quarantine" /\ tst'.steps_per_day.kind = "int") =>
    \A i \in Agents \ (tst'.test_comes_back_arr \cup tst'.new_symptomatic_tested_arr
                         \cup tst'.new_genpop_tested_arr \cup tst'.neighbors_tested) :
      (T_result_left[i] - T_result_left'[i]) * tst'.steps_per_day.v = Day
C26_DecrementByArgument == [][C26_Step]_vars

\* Number of edge-ends of the edge list at node i, a self-loop counting twice.
EdgeEnds(edges, i) ==
  Cardinality({k \in DOMAIN edges : edges[k][1] = i})
    + Cardinality({k \in DOMAIN edges : edges[k][2] = i})

\* Number of edges of the edge list between the nodes u and v.
EdgesBetween(edges, u, v) ==
  Cardinality({k \in DOMAIN edges : {edges[k][1], edges[k][2]} = {u, v}})

\* Position of node u in a shuffled node order.
PositionIn(order, u) == CHOOSE p \in DOMAIN order : order[p] = u

\* Distance between the positions of u and v in a shuffled node order.
PositionsApart(order, u, v) ==
  IF PositionIn(order, u) > PositionIn(order, v)
  THEN PositionIn(order, u) - PositionIn(order, v)
  ELSE PositionIn(order, v) - PositionIn(order, u)

\* C21: the multigraph a builder returns has exactly the nodes 0..N-1, those
\* without an incident edge included, and every edge endpoint is one of them.
C21_ExactNodes ==
  build.state = "returned" =>
    /\ build.H.nodes = 0 .. (build.N - 1)
    /\ Cardinality(build.H.nodes) = build.N
    /\ \A k \in DOMAIN build.H.edges :
         build.H.edges[k][1] \in build.H.nodes /\ build.H.edges[k][2] \in build.H.nodes
C21_Witness ==
  /\ build.state = "returned"
  /\ build.H.edges # <<>>
  /\ \E i \in 0 .. (build.N - 1) : EdgeEnds(build.H.edges, i) = 0

\* C22: generate_scale_free_graph returns floor(D/2) edges, D the sum of the
\* degrees: edge k joins the stubs 2k-1 and 2k of the shuffled stub list, the
\* last stub is dropped when D is odd, and node i has degree[i] edge-ends
\* (a self-loop counting twice), one fewer if its stub was the dropped one.
C22_StubPairing ==
  (build.state = "returned" /\ build.fn = "generate_scale_free_graph") =>
    LET D == SumOver(0 .. (build.N - 1), build.degrees)
        stubs == build.shuffles[1]
        edges == build.H.edges
    IN /\ Len(stubs) = D
       /\ \A i \in 0 .. (build.N - 1) :
            Cardinality({k \in DOMAIN stubs : stubs[k] = i}) = build.degrees[i]
       /\ Len(edges) = D \div 2
       /\ \A k \in DOMAIN edges : edges[k] = <<stubs[2 * k - 1], stubs[2 * k]>>
       /\ \A i \in 0 .. (build.N - 1) :
            EdgeEnds(edges, i) = build.degrees[i]
                                   - (IF D % 2 = 1 /\ stubs[D] = i THEN 1 ELSE 0)
C22_Witness ==
  /\ build.state = "returned"
  /\ build.fn = "generate_scale_free_graph"
  /\ SumOver(0 .. (build.N - 1), build.degrees) % 2 = 1
  /\ \E k \in DOMAIN build.H.edges : build.H.edges[k][1] = build.H.edges[k][2]

\* C27 as stated: generate_local_graph's edges join, for each chunk of size k,
\* exactly the pairs of nodes k positions apart in the chunk's shuffled order.
C27_NodeKAhead ==
  (build.state = "returned" /\ build.fn = "generate_local_graph") =>
    \A u, v \in 0 .. (build.N - 1) :
      u # v => EdgesBetween(build.H.edges, u, v)
                 = Cardinality({d \in 1 .. build.n_divisions :
                                  /\ build.division_sizes[d] > 0
                                  /\ PositionsApart(build.shuffles[d], u, v)
                                       = build.division_sizes[d]})

\* C27: genereate_local_edges splits int(mean_degree/2) into n_divisions
\* integer chunk sizes and, for each chunk of size k, connects each node to
\* every node 1 to k positions ahead in the chunk's shuffled order, without
\* wrap-around: no self-loop, and as many edges between two nodes as there
\* are chunks in which they are at most k positions apart.
C27_NodesUpToKAhead ==
  (build.state = "returned" /\ build.fn = "generate_local_graph") =>
    /\ Len(build.division_sizes) = build.n_divisions
    /\ \A d \in 1 .. build.n_divisions : build.division_sizes[d] >= 0
    /\ SumOver(1 .. build.n_divisions, build.division_sizes) = build.mean_degree \div 2
    /\ \A u \in 0 .. (build.N - 1) : EdgesBetween(build.H.edges, u, u) = 0
    /\ \A u, v \in 0 .. (build.N - 1) :
         u # v => EdgesBetween(build.H.edges, u, v)
                    = Cardinality({d \in 1 .. build.n_divisions :
                                     PositionsApart(build.shuffles[d], u, v)
                                       <= build.division_sizes[d]})
C27_Witness ==
  /\ build.state = "returned"
  /\ build.fn = "generate_local_graph"
  /\ build.N >= 3
  /\ \E d \in 1 .. build.n_divisions : build.division_sizes[d] >= 2

\* An agent that is infectious at the start of an infection step.
C31_Source(j) ==
  /\ j \notin Q_arr
  /\ j \in I_arr \/ (j \in E_arr /\ E_left[j] <= cfg.DURATION_EXPOSED_INFECTS)

\* Every infectious agent infects each of its contacts with certainty.
C31_Certain ==
  /\ prob_infect_per_step = ProbOne
  /\ cfg.PROB_INFECT_EXPOSED_FACTOR = ProbOne
  /\ cfg.RELATIVE_INFECTIOUSNESS_ASYMPTOMATIC = ProbOne

\* C31: an infection step evaluates its four sub-populations against the
\* state at its start and unites the results: every newly Exposed agent was
\* Susceptible and not Quarantined and has a neighbor that was infectious at
\* the start of the step (never only a neighbor exposed in this step), no
\* sub-population's result is lost, and a newly Exposed agent moves from
\* Susceptible to Exposed once, with one incubation countdown.
C31_Step ==
  (pc = "infection" /\ pc' = "incubation") =>
    LET new == E_arr' \ E_arr
    IN /\ new \subseteq S_arr \ Q_arr
       /\ \A i \in new : \E j \in Agents : C31_Source(j) /\ adj_mat[i][j] > 0
       /\ C31_Certain =>
            \A i \in S_arr \ Q_arr :
              (\E j \in Agents : C31_Source(j) /\ adj_mat[i][j] > 0) => i \in new
       /\ E_arr' = E_arr \cup new
       /\ S_arr' = S_arr \ new
       /\ \A i \in new : E_left'[i] \in IncubationDurations
       /\ Cardinality(S_arr') + Cardinality(E_arr')
            = Cardinality(S_arr) + Cardinality(E_arr)
C31_StartStateUnion == [][C31_Step]_vars
C31_Witness ==
  /\ pc = "incubation"
  /\ step_num = 0
  /\ \E i, j1, j2 \in Agents :
       /\ I_arr = {j1}
       /\ E_arr = {i, j2}
       /\ i # j2
       /\ adj_mat[i][j1] > 0 /\ adj_mat[i][j2] > 0 /\ adj_mat[j1][j2] = 0
       /\ E_left[j2] <= cfg.DURATION_EXPOSED_INFECTS
       /\ E_left[i] > cfg.DURATION_EXPOSED_INFECTS

\* The ticks since agent i entered Quarantine are at least
\* ceil(days_in_quarantine * steps_per_day).
C32_Due(i) == (step_num - Q_entered[i]) * StepLength >= cfg.DAYS_IN_QUARANTINE

\* C32: in a quarantine step a Quarantined agent that is not TestedPositive
\* has its countdown below epsilon exactly when ceil(days_in_quarantine *
\* steps_per_day) ticks have passed since the tick it entered, and not later;
\* before that it stays Quarantined; at that step it leaves, unless it is
\* flagged again, and then it is Quarantined with a fresh countdown.
C32_Step ==
  pc = "quarantine" =>
    \A i \in Q_arr \ TP_arr :
      /\ Q_entered[i] >= 0 /\ Q_entered[i] < step_num
      /\ (step_num - Q_entered[i] - 1) * StepLength < cfg.DAYS_IN_QUARANTINE
      /\ C32_Due(i) <=> BelowEpsilon(Q_left[i] - StepLength)
      /\ ~C32_Due(i) => i \in Q_arr' /\ Q_left'[i] = Q_left[i] - StepLength
      /\ (C32_Due(i) /\ i \notin new_Q_arr) => i \notin Q_arr'
      /\ (C32_Due(i) /\ i \in new_Q_arr) =>
           i \in Q_arr' /\ Q_left'[i] = cfg.DAYS_IN_QUARANTINE
C32_TimedExit == [][C32_Step]_vars
C32_Witness ==
  /\ pc = "recovery"
  /\ \E i \in Agents \ (Q_arr \cup TP_arr) :
       /\ Q_entered[i] >= 0
       /\ C32_Due(i)
       /\ (step_num - Q_entered[i] - 1) * StepLength < cfg.DAYS_IN_QUARANTINE
       /\ step_num - Q_entered[i] > 1
       /\ Q_left[i] = 0

\* The run has stopped: the loop has ended, or an exception has left it.
C33_Stopped == pc \in {"done", "error"}

\* Incubation steps agent i still needs: ceil(incubation_left * steps_per_day).
C33_StepsLeft(El, i) == (El[i] + StepLength - 1) \div StepLength

\* C33: an Exposed agent with countdown d needs ceil(d * steps_per_day)
\* incubation steps, at least one: every incubation step takes one off and
\* makes the agent Infected when none is left, every other step leaves the
\* agent Exposed with its countdown, whatever its quarantine or testing
\* status; and unless the run stops, every Exposed agent becomes Infected.
C33_Step ==
  \A i \in E_arr :
    /\ C33_StepsLeft(E_left, i) >= 1
    /\ (pc = "incubation" /\ C33_StepsLeft(E_left, i) = 1) => i \in I_arr' \ E_arr'
    /\ (pc = "incubation" /\ C33_StepsLeft(E_left, i) > 1) =>
         /\ i \in E_arr' \ I_arr'
         /\ C33_StepsLeft(E_left', i) = C33_StepsLeft(E_left, i) - 1
    /\ pc # "incubation" =>
         i \in E_arr' /\ C33_StepsLeft(E_left', i) = C33_StepsLeft(E_left, i)
C33_ExposedBecomeInfected ==
  /\ [][C33_Step]_vars
  /\ \A i \in 0 .. (N - 1) : (i \in E_arr) ~> (i \in I_arr \/ C33_Stopped)
C33_Witness ==
  /\ pc = "testing"
  /\ step_num = 2
  /\ \E i \in I_arr \cap Q_arr :
       /\ BelowEpsilon(E_left[i]) /\ E_left[i] > 0 - StepLength
       /\ i \in TP_arr

\* C34: infection_step gives a fresh incubation countdown only to the agents
\* that become Exposed in that step: the incubation_left of every other agent,
\* the already Exposed included, is unchanged, and the Infected, Recovered,
\* Quarantined, Asymptomatic and TestedPositive flags are not modified.
C34_Step ==
  pc = "infection" =>
    LET new == E_arr' \ E_arr
    IN /\ \A i \in Agents \ new : E_left'[i] = E_left[i]
       /\ \A i \in new : E_left'[i] \in IncubationDurations
       /\ I_arr' = I_arr
       /\ R_arr' = R_arr
       /\ Q_arr' = Q_arr
       /\ A_arr' = A_arr
       /\ TP_arr' = TP_arr

C34_FreshCountdownOnlyForNew == [][C34_Step]_vars

\* After the first infection step: one agent was Exposed from the start, a
\* second one has just become Exposed, and their countdowns differ.
C34_Witness ==
  /\ pc = "incubation"
  /\ step_num = 0
  /\ cfg.initial_exposed_num = 1
  /\ I_arr # {}
  /\ \E i, j \in E_arr : i # j /\ E_left[i] # E_left[j]
====
